---- MODULE Spec2Model ----
(***************************************************************************)
(* User-management REST API: the `users` table of the initial migration    *)
(* and the five request handlers of app/routers/user_routes.py.            *)
(*                                                                         *)
(* A request handler is a coroutine that suspends only at an `await` on a  *)
(* UserService call, so every UserService call is one atomic step on the   *)
(* store and handlers with several calls (create_user, list_users)         *)
(* interleave with the other requests between their calls.                 *)
(*                                                                         *)
(* UserService, the request schemas and app/utils/link_generation are not  *)
(* among the source files; they are modelled from the specification.       *)
(***************************************************************************)
EXTENDS Integers, Sequences, FiniteSets, TLC

\* ---------------------------------------------------------------- bounds
MaxId == 2            \* identifiers handed out by the store are 1..MaxId
MaxTime == 1          \* the clock reads 0..MaxTime
MaxSeed == 25         \* rows of a pre-populated store (pagination)
MaxSkip == 20         \* list_users: skip is 0..MaxSkip
MaxLimit == 10        \* list_users: limit is -MaxNegLimit..MaxLimit
MaxNegLimit == 1

Procs == {"p1", "p2"}     \* concurrently served requests
Pager == "p1"             \* the client of the pagination specification

Names == {1, 2}           \* the usernames requests carry
Emails == {1, 2}          \* the e-mail addresses requests carry
Ids == 1..MaxId
Skips == 0..MaxSkip
Limits == (0 - MaxNegLimit)..MaxLimit

\* ------------------------------------------------------- HTTP status codes
HTTP_200_OK == 200
HTTP_201_CREATED == 201
HTTP_204_NO_CONTENT == 204
HTTP_400_BAD_REQUEST == 400
HTTP_404_NOT_FOUND == 404
HTTP_422_UNPROCESSABLE_ENTITY == 422
HTTP_500_INTERNAL_SERVER_ERROR == 500

\* ------------------------------------------------------------ the store
\* A row of `users`. hashed_password, bio, profile_picture_url, last_login_at
\* and failed_login_attempts are written by no handler and left out.
UserFields == {"id", "username", "email", "created_at", "updated_at"}

\* Python's None as a UserService result: no row has identifier 0.
NoUser == [id |-> 0, username |-> 0, email |-> 0, created_at |-> 0, updated_at |-> 0]

\* A field of UserUpdate that the request body did not set.
Unset == 0 - 1

UpdateFields == {"username", "email"}

Min(a, b) == IF a < b THEN a ELSE b
Max(a, b) == IF a > b THEN a ELSE b

VARIABLES
    store,      \* the rows of `users`, in insertion order
    next_id,    \* the next identifier the store generates
    now,        \* the clock
    pc,         \* pc[p]: the await the handler serving p is suspended at
    local,      \* local[p]: that handler's local variables
    resp,       \* the response the latest step sent, NoResp if it sent none
    raced       \* raced[p] (history): since p's create_user passed its
                \* pre-check, another create_user was answered 201 for
                \* the same username

vars == <<store, next_id, now, pc, local, resp, raced>>

NoLocal == [op |-> "none"]
NoResp == [op |-> "none", status |-> 0]

Rows(st) == {st[i] : i \in 1..Len(st)}

\* UniqueConstraint('email'), UniqueConstraint('username') and the primary
\* key: the store accepts `row` if no OTHER row has its username or its
\* e-mail (a row with the same id is the row being rewritten).
\* Faulty variants: the table without one of the two unique constraints.
StoreAcceptsNoUsernameConstraint(st, row) ==
    \A i \in 1..Len(st) : st[i].id # row.id => st[i].email # row.email

StoreAcceptsNoEmailConstraint(st, row) ==
    \A i \in 1..Len(st) : st[i].id # row.id => st[i].username # row.username

StoreAccepts(st, row) ==
    \A i \in 1..Len(st) :
        st[i].id # row.id =>
            (st[i].username # row.username /\ st[i].email # row.email)

\* --------------------------------------------------------- UserService
UserService_get_by_id(st, user_id) ==
    IF \E i \in 1..Len(st) : st[i].id = user_id
    THEN st[CHOOSE i \in 1..Len(st) : st[i].id = user_id]
    ELSE NoUser

UserService_get_by_username(st, username) ==
    IF \E i \in 1..Len(st) : st[i].username = username
    THEN st[CHOOSE i \in 1..Len(st) : st[i].username = username]
    ELSE NoUser

UserService_count(st) == Len(st)

\* create: a fresh identifier, both timestamps the current time; None and no
\* insertion if the store's constraints reject the row.
NewRow(fields, id, t) ==
    [id |-> id, username |-> fields.username, email |-> fields.email,
     created_at |-> t, updated_at |-> t]

UserService_create(st, fields, id, t) ==
    IF StoreAccepts(st, NewRow(fields, id, t))
    THEN [user |-> NewRow(fields, id, t), store |-> Append(st, NewRow(fields, id, t))]
    ELSE [user |-> NoUser, store |-> st]

\* update: only the fields present in `data` are written, updated_at is
\* refreshed; None if the id is absent or the store rejects the new row.
\* Faulty variant: the update stamps created_at as well.
UpdatedRowTouchesCreated(row, data, t) ==
    [f \in UserFields |->
        IF f \in DOMAIN data THEN data[f]
        ELSE IF f \in {"created_at", "updated_at"} THEN t
        ELSE row[f]]

UpdatedRow(row, data, t) ==
    [f \in UserFields |->
        IF f \in DOMAIN data THEN data[f]
        ELSE IF f = "updated_at" THEN t
        ELSE row[f]]

UserService_update(st, user_id, data, t) ==
    LET old == UserService_get_by_id(st, user_id)
        new == UpdatedRow(old, data, t)
    IN  IF old = NoUser THEN [user |-> NoUser, store |-> st, rejected |-> FALSE]
        ELSE IF ~StoreAccepts(st, new)
        THEN [user |-> NoUser, store |-> st, rejected |-> TRUE]
        ELSE [user |-> new,
              store |-> [i \in 1..Len(st) |-> IF st[i].id = user_id THEN new ELSE st[i]],
              rejected |-> FALSE]

\* delete: removes the row; whether a row existed and was removed.
UserService_delete(st, user_id) ==
    [success |-> \E i \in 1..Len(st) : st[i].id = user_id,
     store |-> SelectSeq(st, LAMBDA r : r.id # user_id)]

\* list_users: the rows in insertion order, offset by skip, capped at limit.
\* A negative limit is no cap where the store takes it, and an error of the
\* store where it does not (list_users_fetch chooses).
UserService_list_users(st, skip, limit) ==
    IF limit < 0 THEN SubSeq(st, skip + 1, Len(st))
    ELSE SubSeq(st, skip + 1, Min(skip + limit, Len(st)))

\* ------------------------------------------------------ link generation
create_user_links(user_id) ==
    [self |-> <<"get_user", user_id>>,
     update |-> <<"update_user", user_id>>,
     delete |-> <<"delete_user", user_id>>]

\* The query parameters of a page link.
PageLink(skip, limit) == [skip |-> skip, limit |-> limit]

\* `self` always, `next` iff skip + limit < total_items, `previous` iff
\* skip > 0 with its offset clamped to zero.
generate_pagination_links(skip, limit, total_items) ==
    [rel \in {"self"}
            \cup (IF skip + limit < total_items THEN {"next"} ELSE {})
            \cup (IF skip > 0 THEN {"previous"} ELSE {}) |->
        IF rel = "self" THEN PageLink(skip, limit)
        ELSE IF rel = "next" THEN PageLink(skip + limit, limit)
        ELSE PageLink(Max(skip - limit, 0), limit)]

\* ------------------------------------------------------------- schemas
\* UserResponse.model_construct(id=, username=, email=, last_login_at=,
\* created_at=, updated_at=, links=)
UserResponse(user) ==
    [id |-> user.id, username |-> user.username, email |-> user.email,
     created_at |-> user.created_at, updated_at |-> user.updated_at,
     links |-> create_user_links(user.id)]

\* The request bodies. A UserUpdate carries every field, Unset where the
\* request body did not name it.
UserCreates == [username : Names, email : Emails]

UserUpdates ==
    [username : Names \cup {Unset}, email : Emails \cup {Unset}]

\* user_update.model_dump(exclude_unset=True)
\* Faulty variant: model_dump() without exclude_unset, unset fields as None.
model_dump_all(user_update) ==
    [f \in UpdateFields |-> IF user_update[f] = Unset THEN 0 ELSE user_update[f]]

model_dump_exclude_unset(user_update) ==
    [f \in {g \in UpdateFields : user_update[g] # Unset} |-> user_update[f]]

\* ------------------------------------------------------------- handlers
\* GET /users/{user_id}
get_user(user_id) ==
    /\ LET user == UserService_get_by_id(store, user_id)
       IN  IF user = NoUser
           THEN resp' = [op |-> "get_user", status |-> HTTP_404_NOT_FOUND]
           ELSE resp' = [op |-> "get_user", status |-> HTTP_200_OK,
                         body |-> UserResponse(user)]
    /\ UNCHANGED <<store, next_id, now, pc, local, raced>>

\* PUT /users/{user_id}. The store's rejection of the new row reaches the
\* handler as None (404) or as an exception the handler does not catch (500).
update_user_status(updated_user) ==
    IF updated_user = NoUser THEN HTTP_404_NOT_FOUND ELSE HTTP_200_OK

update_user(user_id, user_update) ==
    /\ LET user_data == model_dump_exclude_unset(user_update)
           got == UserService_update(store, user_id, user_data, now)
       IN  /\ store' = got.store
           /\ IF got.user # NoUser
              THEN resp' = [op |-> "update_user",
                            status |-> update_user_status(got.user),
                            body |-> UserResponse(got.user)]
              ELSE \E s \in IF got.rejected
                            THEN {update_user_status(got.user),
                                  HTTP_500_INTERNAL_SERVER_ERROR}
                            ELSE {update_user_status(got.user)} :
                      resp' = [op |-> "update_user", status |-> s]
    /\ UNCHANGED <<next_id, now, pc, local, raced>>

\* DELETE /users/{user_id}
\* Faulty variant: the result of UserService.delete ignored.
delete_user_status_always_204(success) == HTTP_204_NO_CONTENT

delete_user_status(success) ==
    IF ~success THEN HTTP_404_NOT_FOUND ELSE HTTP_204_NO_CONTENT

delete_user(user_id) ==
    /\ LET got == UserService_delete(store, user_id)
       IN  /\ store' = got.store
           /\ resp' = [op |-> "delete_user", status |-> delete_user_status(got.success)]
    /\ UNCHANGED <<next_id, now, pc, local, raced>>

\* POST /users/, first await: the username pre-check.
\* Faulty variant: the pre-check looks the e-mail address up instead.
create_user_precheck_by_email(st, user) ==
    \E r \in Rows(st) : r.email = user.email

create_user_precheck(st, user) ==
    UserService_get_by_username(st, user.username) # NoUser

create_user_check(p, user) ==
    /\ pc[p] = "idle"
    /\ next_id <= MaxId
    /\ IF create_user_precheck(store, user)
       THEN /\ resp' = [op |-> "create_user", status |-> HTTP_400_BAD_REQUEST,
                        username |-> user.username]
            /\ UNCHANGED <<pc, local>>
       ELSE /\ pc' = [pc EXCEPT ![p] = "create_user_insert"]
            /\ local' = [local EXCEPT ![p] = [op |-> "create_user", user |-> user]]
            /\ resp' = NoResp
    /\ UNCHANGED <<store, next_id, now, raced>>

\* POST /users/, second await: the insert, and the response.
create_user_insert(p) ==
    /\ pc[p] = "create_user_insert"
    /\ LET user == local[p].user
           got == UserService_create(store, user, next_id, now)
       IN  /\ store' = got.store
           /\ next_id' = IF got.user # NoUser THEN next_id + 1 ELSE next_id
           /\ raced' = [q \in Procs |->
                 /\ q # p
                 /\ pc[q] = "create_user_insert"
                 /\ \/ raced[q]
                    \/ got.user # NoUser /\ local[q].user.username = user.username]
           /\ IF got.user = NoUser
              THEN resp' = [op |-> "create_user",
                            status |-> HTTP_500_INTERNAL_SERVER_ERROR,
                            username |-> user.username]
              ELSE resp' = [op |-> "create_user", status |-> HTTP_201_CREATED,
                            username |-> user.username,
                            body |-> UserResponse(got.user)]
    /\ pc' = [pc EXCEPT ![p] = "idle"]
    /\ local' = [local EXCEPT ![p] = NoLocal]
    /\ UNCHANGED now

\* Python's a // b, b # 0: the floor of the quotient.
FloorDiv(a, b) == IF b > 0 THEN a \div b ELSE (0 - a) \div (0 - b)

\* GET /users/?skip=&limit=, first await: the count. skip and limit are any
\* integers: the signature declares no constraint on them.
list_users_count(p, skip, limit) ==
    /\ pc[p] = "idle"
    /\ pc' = [pc EXCEPT ![p] = "list_users_fetch"]
    /\ local' = [local EXCEPT ![p] = [op |-> "list_users", skip |-> skip, limit |-> limit,
                                      total_users |-> UserService_count(store)]]
    /\ resp' = NoResp
    /\ UNCHANGED <<store, next_id, now, raced>>

\* users = await UserService.list_users(db, skip=skip, limit=limit)
\* Faulty variant: the first skip + limit rows instead of the page.
list_users_query_first_rows(st, skip, limit) == UserService_list_users(st, 0, skip + limit)

list_users_query(st, skip, limit) == UserService_list_users(st, skip, limit)

\* user_responses = [UserResponse.model_construct(...) for user in users]
list_users_items(users) == [i \in 1..Len(users) |-> UserResponse(users[i])]

\* pagination_links and EnhancedPagination(page=, per_page=, total_items=,
\* total_pages=, links=), limit # 0.
\* Faulty variants: total_pages rounded down; links computed from the rows
\* up to the end of the page instead of the total.
EnhancedPaginationTruncating(skip, limit, total_users) ==
    [page |-> FloorDiv(skip, limit) + 1,
     per_page |-> limit,
     total_items |-> total_users,
     total_pages |-> FloorDiv(total_users, limit),
     links |-> generate_pagination_links(skip, limit, total_users)]

EnhancedPaginationLinksOfPage(skip, limit, total_users) ==
    [page |-> FloorDiv(skip, limit) + 1,
     per_page |-> limit,
     total_items |-> total_users,
     total_pages |-> FloorDiv(total_users + limit - 1, limit),
     links |-> generate_pagination_links(skip, limit, Min(total_users, skip + limit))]

EnhancedPagination(skip, limit, total_users) ==
    [page |-> FloorDiv(skip, limit) + 1,
     per_page |-> limit,
     total_items |-> total_users,
     total_pages |-> FloorDiv(total_users + limit - 1, limit),
     links |-> generate_pagination_links(skip, limit, total_users)]

\* GET /users/?skip=&limit=, second await: the page, and the response. With
\* limit = 0 the division of line 161 raises ZeroDivisionError, which the
\* handler does not catch: 500.
list_users_fetch(p) ==
    /\ pc[p] = "list_users_fetch"
    /\ LET skip == local[p].skip
           limit == local[p].limit
           req == [skip |-> skip, limit |-> limit]
       IN  \E store_error \in IF limit < 0 THEN {TRUE, FALSE} ELSE {FALSE} :
              IF store_error \/ limit = 0
              THEN resp' = [op |-> "list_users", req |-> req,
                            status |-> HTTP_500_INTERNAL_SERVER_ERROR]
              ELSE resp' = [op |-> "list_users", req |-> req,
                            status |-> HTTP_200_OK,
                            items |-> list_users_items(list_users_query(store, skip, limit)),
                            pagination |-> EnhancedPagination(skip, limit,
                                                              local[p].total_users)]
    /\ pc' = [pc EXCEPT ![p] = "idle"]
    /\ local' = [local EXCEPT ![p] = NoLocal]
    /\ UNCHANGED <<store, next_id, now, raced>>

\* The clock advances between any two steps, or does not.
Tick ==
    /\ now < MaxTime
    /\ now' = now + 1
    /\ resp' = NoResp
    /\ UNCHANGED <<store, next_id, pc, local, raced>>

Init ==
    /\ store = <<>>
    /\ next_id = 1
    /\ now = 0
    /\ pc = [p \in Procs |-> "idle"]
    /\ local = [p \in Procs |-> NoLocal]
    /\ resp = NoResp
    /\ raced = [p \in Procs |-> FALSE]

\* The requests that write, served concurrently: any number of update_user
\* and delete_user requests (one store call each) between the two store
\* calls of up to two create_user requests.
Next ==
    \/ \E user_id \in Ids, u \in UserUpdates : update_user(user_id, u)
    \/ \E user_id \in Ids : delete_user(user_id)
    \/ \E p \in Procs, user \in UserCreates : create_user_check(p, user)
    \/ \E p \in Procs : create_user_insert(p)
    \/ Tick

Spec == Init /\ [][Next]_vars

\* The single-user handlers, reads included, with one create_user in flight
\* at a time. The stores it reaches are those Spec reaches.
NextSeq ==
    \/ \E user_id \in Ids : get_user(user_id)
    \/ \E user_id \in Ids, u \in UserUpdates : update_user(user_id, u)
    \/ \E user_id \in Ids : delete_user(user_id)
    \/ \E user \in UserCreates : create_user_check(Pager, user)
    \/ create_user_insert(Pager)
    \/ Tick

SpecSeq == Init /\ [][NextSeq]_vars

\* Pagination: one client pages through a store of 0..MaxSeed users that no
\* request writes to.
SeedRow(i) == [id |-> i, username |-> i, email |-> i, created_at |-> 0, updated_at |-> 0]

Seed(n) == [i \in 1..n |-> SeedRow(i)]

InitPage ==
    /\ \E n \in 0..MaxSeed : store = Seed(n) /\ next_id = n + 1
    /\ now = 0
    /\ pc = [p \in Procs |-> "idle"]
    /\ local = [p \in Procs |-> NoLocal]
    /\ resp = NoResp
    /\ raced = [p \in Procs |-> FALSE]

NextPage ==
    \/ \E skip \in Skips, limit \in Limits : list_users_count(Pager, skip, limit)
    \/ list_users_fetch(Pager)

SpecPage == InitPage /\ [][NextPage]_vars

\* ============================================================== claims
RowsNamed(st, username) == {r \in Rows(st) : r.username = username}

\* C1: a create_user request whose username is that of a row in the store
\* when the handler runs its pre-check ends with 400 Bad Request, and the
\* store is left as it was, holding exactly one row with that username.
C1_DuplicateUsernameConflict ==
    [][\A p \in Procs, user \in UserCreates :
          (create_user_check(p, user) /\ RowsNamed(store, user.username) # {})
          => /\ resp'.op = "create_user"
             /\ resp'.status = HTTP_400_BAD_REQUEST
             /\ pc'[p] = "idle"
             /\ store' = store
             /\ Cardinality(RowsNamed(store', user.username)) = 1]_vars

C1_Witness ==
    /\ resp.op = "create_user"
    /\ resp.status = HTTP_400_BAD_REQUEST
    /\ Cardinality(RowsNamed(store, resp.username)) = 1

\* C2: in every reachable state no two distinct rows share a username and
\* no two distinct rows share an e-mail address.
C2_UsernameEmailUnique ==
    \A i, j \in 1..Len(store) :
        i # j => /\ store[i].username # store[j].username
                 /\ store[i].email # store[j].email
                 /\ store[i].id # store[j].id

\* Two rows in the store and a racing create just refused by a constraint.
C2_Witness ==
    /\ Len(store) = 2
    /\ resp.op = "create_user"
    /\ resp.status = HTTP_500_INTERNAL_SERVER_ERROR

\* What C3 says of a step update_user(user_id, u) on an existing row.
PayloadKept(old, new, u) ==
    /\ \A f \in UpdateFields : new[f] = IF u[f] = Unset THEN old[f] ELSE u[f]
    /\ new.id = old.id
    /\ new.created_at = old.created_at

\* Another row holds the username or the e-mail address the payload sets.
PayloadCollides(st, user_id, u) ==
    \E r \in Rows(st) :
        /\ r.id # user_id
        /\ \/ u.username # Unset /\ r.username = u.username
           \/ u.email # Unset /\ r.email = u.email

\* C3 as stated: every update_user on an existing id, whatever the partial
\* payload, leaves the absent fields as they were, gives the present fields
\* the payload's values, and strictly increases updated_at.
C3_UpdateAnyPayload ==
    [][\A user_id \in Ids, u \in UserUpdates :
          (/\ resp'.op = "update_user"
           /\ UserService_get_by_id(store, user_id) # NoUser
           /\ update_user(user_id, u))
          => LET old == UserService_get_by_id(store, user_id)
                 new == UserService_get_by_id(store', user_id)
             IN  /\ PayloadKept(old, new, u)
                 /\ new.updated_at > old.updated_at]_vars

\* C3 amended: every update_user on an existing id whose payload sets no
\* username and no e-mail address held by another row leaves the absent
\* fields as they were, gives the present fields the payload's values, and
\* sets updated_at to the current time, which is never less than before.
C3_UpdateAcceptedPayload ==
    [][\A user_id \in Ids, u \in UserUpdates :
          (/\ resp'.op = "update_user"
           /\ UserService_get_by_id(store, user_id) # NoUser
           /\ ~PayloadCollides(store, user_id, u)
           /\ update_user(user_id, u))
          => LET old == UserService_get_by_id(store, user_id)
                 new == UserService_get_by_id(store', user_id)
             IN  /\ PayloadKept(old, new, u)
                 /\ new.updated_at = now
                 /\ new.updated_at >= old.updated_at
                 /\ resp'.status = HTTP_200_OK
                 /\ resp'.body = UserResponse(new)]_vars

\* An update just answered 200 for a row whose updated_at has moved.
C3_Witness ==
    /\ resp.op = "update_user"
    /\ resp.status = HTTP_200_OK
    /\ resp.body.updated_at > resp.body.created_at
    /\ \E r \in Rows(store) : UserResponse(r) = resp.body

\* C4: a delete_user request whose id matches no row ends with 404 Not
\* Found and leaves the rows of the store as they were.
C4_DeleteMissingNotFound ==
    [][\A user_id \in Ids :
          (delete_user(user_id) /\ UserService_get_by_id(store, user_id) = NoUser)
          => /\ resp'.op = "delete_user"
             /\ resp'.status = HTTP_404_NOT_FOUND
             /\ store' = store]_vars

C4_Witness ==
    /\ resp.op = "delete_user"
    /\ resp.status = HTTP_404_NOT_FOUND
    /\ Len(store) > 0

\* C5: every list_users request with limit <= 0 is answered with a
\* validation error (422), never with the outcome of computing the page.
C5_NonPositiveLimitRejected ==
    (resp.op = "list_users" /\ resp.req.limit <= 0)
    => resp.status = HTTP_422_UNPROCESSABLE_ENTITY

\* C6: a list_users(skip, limit) response with skip >= 0 and limit > 0 has at
\* most limit items, and none of them is an item of the page that
\* list_users(skip + limit, limit) returns from the same store.
C6_PagesCappedAndDisjoint ==
    (resp.op = "list_users" /\ resp.req.skip >= 0 /\ resp.req.limit > 0)
    => /\ resp.status = HTTP_200_OK
       /\ Len(resp.items) <= resp.req.limit
       /\ LET following == list_users_items(
                 list_users_query(store, resp.req.skip + resp.req.limit, resp.req.limit))
          IN  \A i \in 1..Len(resp.items), j \in 1..Len(following) :
                 resp.items[i].id # following[j].id

\* A full page that has a non-empty page after it.
C6_Witness ==
    /\ resp.op = "list_users"
    /\ resp.status = HTTP_200_OK
    /\ resp.req.limit > 1
    /\ Len(resp.items) = resp.req.limit
    /\ Len(store) > resp.req.skip + resp.req.limit

\* C7: the links of a list_users response with skip >= 0 and limit > 0 over
\* total_items users hold `self` always, `next` iff skip + limit <
\* total_items, `previous` iff skip > 0, and `previous` points at offset
\* max(skip - limit, 0).
C7_PaginationLinks ==
    (resp.op = "list_users" /\ resp.req.skip >= 0 /\ resp.req.limit > 0)
    => LET links == resp.pagination.links
           skip == resp.req.skip
           limit == resp.req.limit
       IN  /\ "self" \in DOMAIN links
           /\ ("next" \in DOMAIN links) <=> (skip + limit < Len(store))
           /\ ("previous" \in DOMAIN links) <=> (skip > 0)
           /\ "previous" \in DOMAIN links =>
                 /\ links["previous"].skip >= 0
                 /\ links["previous"].skip = IF skip > limit THEN skip - limit ELSE 0

\* A middle page: both `next` and `previous`, the latter clamped to 0.
C7_Witness ==
    /\ resp.op = "list_users"
    /\ resp.status = HTTP_200_OK
    /\ DOMAIN resp.pagination.links = {"self", "next", "previous"}
    /\ resp.req.skip < resp.req.limit
    /\ resp.pagination.links["previous"].skip = 0

\* C8: every row has created_at <= updated_at; a row enters the store with
\* both equal to the current time, and a step changes no row's created_at
\* and moves no row's updated_at back.
C8_CreatedBeforeUpdated ==
    /\ [](\A r \in Rows(store) : r.created_at <= r.updated_at)
    /\ [][\A n \in Rows(store') :
             IF \E r \in Rows(store) : r.id = n.id
             THEN \A r \in Rows(store) :
                     r.id = n.id => /\ n.created_at = r.created_at
                                    /\ n.updated_at >= r.updated_at
             ELSE n.created_at = now /\ n.updated_at = now]_vars

\* A row that was created at one time and updated at a later one.
C8_Witness ==
    /\ resp.op = "update_user"
    /\ \E r \in Rows(store) : r.created_at < r.updated_at

\* C9: the pagination block of a list_users response with skip >= 0 and
\* limit > 0 has per_page = limit, total_items = the row count, page = the k
\* with (k-1)*limit <= skip < k*limit, and total_pages = the least k with
\* k*limit >= total_items; 25 users with skip=20, limit=10 give 5 items,
\* page 3, total_pages 3, no `next` and `previous` at skip=10.
C9_PageArithmetic ==
    (resp.op = "list_users" /\ resp.req.skip >= 0 /\ resp.req.limit > 0)
    => LET pg == resp.pagination
           skip == resp.req.skip
           limit == resp.req.limit
       IN  /\ pg.per_page = limit
           /\ pg.total_items = Len(store)
           /\ (pg.page - 1) * limit <= skip /\ skip < pg.page * limit
           /\ pg.total_pages >= 0
           /\ pg.total_pages * limit >= pg.total_items
           /\ (pg.total_pages - 1) * limit < pg.total_items
           /\ (Len(store) = 25 /\ skip = 20 /\ limit = 10)
              => /\ Len(resp.items) = 5
                 /\ pg.page = 3
                 /\ pg.total_pages = 3
                 /\ "next" \notin DOMAIN pg.links
                 /\ pg.links["previous"].skip = 10

C9_Witness ==
    /\ resp.op = "list_users"
    /\ resp.status = HTTP_200_OK
    /\ Len(store) = 25 /\ resp.req.skip = 20 /\ resp.req.limit = 10
    /\ Len(resp.items) = 5
    /\ resp.pagination.page = 3

====
